---- MODULE Spec2Model ----
(***************************************************************************)
(* RHEEDCapture: the preview worker, the capture service, the experiment   *)
(* storage and the main window's orchestration of them, as a state         *)
(* machine.  Three threads act on the shared state: the PreviewWorker      *)
(* thread, the CaptureService thread and the UI thread, whose slots run    *)
(* one at a time to completion.                                            *)
(*                                                                         *)
(* A position named after a camera or storage call means that the thread   *)
(* is at that call: about to make it or inside it.  The call's effect      *)
(* happens in the step that leaves the position.                           *)
(***************************************************************************)
EXTENDS Integers, Sequences, FiniteSets

\* ------------------------------------------------------------------ bounds
\* longest exposure list typed into the window
MaxLen == 2
\* Start requests accepted in one behaviour of the whole application
MaxRuns == 2
\* highest branch number the New Branch button is pressed up to
MaxBranch == 2
\* Browse and New Branch clicks during one run
MaxStorageOps == 1
\* calls made on an ExperimentStorage by a caller of its own
MaxCalls == 4

\* ------------------------------------------------------- program constants
\* CaptureService.max_retries
max_retries == 3

\* the exposures and the gain lists typed into the window
ExposureValues == {1, 2}
GainLists == { <<0>>, <<1, 0>>, <<0, 0>> }

\* the two root directories the user can browse to
Roots == {"rootA", "rootB"}

\* Directories are tuples: <<r>> a root, <<r, b>> the branch {date} (b = 1)
\* or {date}-{b}, <<r, b, s>> the sequence directory image_{s:03d} in it.
\* rootA does not exist yet; rootB holds an earlier session of the same day.
InitDirs == { <<"rootB">>, <<"rootB", 1>>, <<"rootB", 1, 1>>, <<"rootB", 1, 2>> }

\* ----------------------------------------------------------------- helpers
SetMax(S, default) == IF S = {} THEN default ELSE CHOOSE m \in S : \A x \in S : x <= m

SeqsUpTo(S, n) == UNION { [1..k -> S] : k \in 1..n }

\* sorted(): ascending order, equal elements kept
RECURSIVE Insert(_, _)
Insert(x, s) ==
    IF s = <<>> THEN <<x>>
    ELSE IF x < Head(s) THEN <<x>> \o s
    ELSE <<Head(s)>> \o Insert(x, Tail(s))

RECURSIVE Sorted(_)
Sorted(s) == IF s = <<>> THEN <<>> ELSE Insert(Head(s), Sorted(Tail(s)))

\* itertools.product(exposure_list, gain_list): the first list is the outer loop
RECURSIVE Pairs(_, _)
Pairs(e, G) == IF G = <<>> THEN <<>> ELSE << <<e, Head(G)>> >> \o Pairs(e, Tail(G))

RECURSIVE Product(_, _)
Product(E, G) == IF E = <<>> THEN <<>> ELSE Pairs(Head(E), G) \o Product(Tail(E), G)

\* a constructor that forgets to sort its lists
Conditions_Unsorted(exposure_list, gain_list) == Product(exposure_list, gain_list)

\* CaptureService.__init__: self.conditions
Conditions(exposure_list, gain_list) == Product(Sorted(exposure_list), Sorted(gain_list))

\* "{x:g}" on the values modelled, integral and below 10^6: the decimal digits
\* of the integer, written here as the integer
FormatG(x) == x

\* --------------------------------------------------------- ExperimentStorage
\* Path.mkdir(parents=True, exist_ok=True)
Mkdir(dirs, path) == dirs \cup { SubSeq(path, 1, k) : k \in 1..Len(path) }

get_current_experiment_dir(st) == <<st.root, st.branch>>

get_current_sequence_dir(st) == <<st.root, st.branch, st.seq>>

\* the name of the sequence directory, image_{seq:03d}, as its number
SequenceDirName(st) == <<st.seq>>

search_max_branch(root, dirs) ==
    SetMax({ d[2] : d \in { x \in dirs : Len(x) = 2 /\ x[1] = root } }, 1)

\* re.compile(r"image_(\d{3})").match(name) on the name image_{n:03d}: the
\* pattern is not anchored at its end, group(1) is the first three digits
RECURSIVE ScanSeq(_)
ScanSeq(n) == IF n < 1000 THEN n ELSE ScanSeq(n \div 10)

search_max_sequence(root, branch, dirs) ==
    IF <<root, branch>> \notin dirs THEN 0
    ELSE SetMax({ ScanSeq(d[3]) :
                    d \in { x \in dirs : Len(x) = 3 /\ x[1] = root /\ x[2] = branch } }, 0)

\* a set_root_dir that looks for the sequences before it has set the branch
set_root_dir_ScansOldBranch(st, root, dirs) ==
    IF <<root>> \notin dirs
    THEN [st EXCEPT !.root = root]
    ELSE [root |-> root, branch |-> search_max_branch(root, dirs),
          seq |-> search_max_sequence(root, st.branch, dirs)]

set_root_dir(st, root, dirs) ==
    IF <<root>> \notin dirs
    THEN [st EXCEPT !.root = root]
    ELSE LET b == search_max_branch(root, dirs)
         IN  [root |-> root, branch |-> b, seq |-> search_max_sequence(root, b, dirs)]

\* an increment_branch that keeps the sequence counter
increment_branch_KeepsCounter(st) == [st EXCEPT !.branch = @ + 1]

increment_branch(st) == [st EXCEPT !.branch = @ + 1, !.seq = 0]

\* ExperimentStorage.__init__
NewStorage(root, dirs) == set_root_dir([root |-> root, branch |-> 1, seq |-> 0], root, dirs)

\* the path save_frame writes: directory and file name
FramePath(st, e, g) == <<st.root, st.branch, st.seq, FormatG(e), FormatG(g)>>

\* TiffWriter.save on a path: the file is created or overwritten
WriteFile(files, path, content) ==
    { f \in files : f.path # path } \cup { [path |-> path, content |-> content] }

\* -------------------------------------------------------------------- state
VARIABLES
    \* CameraDevice: connected (the handle is open), grabbing (IsGrabbing()),
    \* exposure and gain (the device's settings)
    cam,
    \* PreviewWorker: pc (position in run()), is_running, pause_requested, is_paused
    pw,
    \* MainWindow: btn_start and btn_cancel (the buttons are enabled), paused_conn
    \* (the single-shot connection of preview_paused is in place), queue (the
    \* signals queued to the UI thread), edit_exp and edit_gain (the line edits,
    \* as the lists they parse to), window ("open", "closing", "closed")
    ui,
    \* CaptureService: thread ("none", "running", "finished"), pc (position in
    \* run()), conditions, is_cancelled, shot (shot_count), attempt, success,
    \* saved_dir_name, last_error, exc (the exception in flight)
    cs,
    \* ExperimentStorage: root, branch (_branch_number), seq (_sequence_counter)
    st,
    \* the file system: the directories, and the files with their content
    dirs, files,
    \* history of the current run, read by the properties only: runs (runs
    \* started), events (signals the run emitted), grabCalls and saveCalls
    \* (grab_one and save_frame calls of the current shot), runSaveCalls
    \* (save_frame calls of the run), saved (frames the run saved), created (the
    \* directory its start_new_sequence created), cancelAfter (k when cancel()
    \* came between shot k and the checkpoint of shot k+1, else 0), exhausted (a
    \* shot used up its attempts), shotLog (conditions of the shots begun),
    \* fails, setFails, grabFails (attempts of the current shot that failed, that
    \* failed in set_exposure or set_gain, that failed in grab_one),
    \* storageOps (Browse and New Branch clicks during the run),
    \* hs (the steps of the pause handshake), cancelAt (where the run was when
    \* cancel() was called: "before_checkpoint" of one of its shots or
    \* "after_checkpoints"), grabAfterCancel (the run came to a grab_one call
    \* after cancel() had returned); and of an ExperimentStorage used by a
    \* caller of its own: calls (calls made), lastCall (the method called last),
    \* started (start_new_sequence has been called since the construction, the
    \* last set_root_dir and the last increment_branch), saveError (the last
    \* save_frame raised), prevCall (the method called before the last one),
    \* prevSt (the storage's fields before the last call), pwErrors (the
    \* error_occurred signals of the preview loop's present iteration),
    \* grabTimeout (the timeout given to the last grab_one), runGrabs and
    \* runSleeps (the grab_one calls and the retry delays of the whole run,
    \* counted in steps of counted: 1 where the run's totals are followed, else
    \* 0), earlyCancel (Cancel was clicked between the accepted Start and the
    \* start of its service, of which click nothing is kept once the service is
    \* constructed)
    h

vars == <<cam, pw, ui, cs, st, dirs, files, h>>

total_shots == Len(cs.conditions)

\* the positions at which a thread is at a camera call
CsCameraCalls == {"set_exposure", "set_gain", "grab_one"}
PwCameraCalls == {"stop_grabbing", "start_preview_grab", "get_exposure", "retrieve_preview_frame"}

\* a CaptureService object as __init__ leaves it, and the history of a new run
NewService(exposure_list, gain_list) ==
    [thread |-> "none", pc |-> "start",
     conditions |-> Conditions(exposure_list, gain_list),
     is_cancelled |-> FALSE, shot |-> 0, attempt |-> 0, success |-> FALSE,
     saved_dir_name |-> <<>>, last_error |-> "none", exc |-> "none"]

NewHistory(n, handshake) ==
    [runs |-> n, events |-> <<>>, grabCalls |-> 0, saveCalls |-> 0, runSaveCalls |-> 0,
     saved |-> <<>>, created |-> <<>>, cancelAfter |-> 0, exhausted |-> FALSE,
     shotLog |-> <<>>, fails |-> 0, setFails |-> 0, grabFails |-> 0, storageOps |-> 0,
     hs |-> handshake, cancelAt |-> "none", grabAfterCancel |-> FALSE,
     calls |-> 0, lastCall |-> "none", started |-> FALSE, saveError |-> FALSE,
     prevCall |-> "none", prevSt |-> <<>>, pwErrors |-> 0, grabTimeout |-> 0,
     runGrabs |-> 0, runSleeps |-> 0, counted |-> 0, earlyCancel |-> FALSE]

\* ------------------------------------------------- CaptureService.run thread
AtCs(pc) == cs.thread = "running" /\ cs.pc = pc

\* run(): success = False, saved_dir_name = ""; start_new_sequence:
\* self.root_dir.mkdir(parents=True, exist_ok=True), which may raise OSError;
\* run() catches no OSError
CsMkdirRoot ==
    /\ AtCs("start")
    /\ \/ /\ dirs' = Mkdir(dirs, <<st.root>>)
          /\ cs' = [cs EXCEPT !.success = FALSE, !.saved_dir_name = <<>>, !.pc = "sns_exp"]
       \/ /\ dirs' = dirs
          /\ cs' = [cs EXCEPT !.success = FALSE, !.saved_dir_name = <<>>,
                              !.exc = "other", !.pc = "finally"]
    /\ UNCHANGED <<cam, pw, ui, st, files, h>>

\* start_new_sequence: exp_dir.mkdir(parents=True, exist_ok=True)
CsMkdirExp ==
    /\ AtCs("sns_exp")
    /\ dirs' = Mkdir(dirs, get_current_experiment_dir(st))
    /\ cs' = [cs EXCEPT !.pc = "sns_seq"]
    /\ UNCHANGED <<cam, pw, ui, st, files, h>>

\* start_new_sequence: self._sequence_counter += 1; sequence_dir.mkdir(...)
CsMkdirSeq ==
    /\ AtCs("sns_seq")
    /\ st' = [st EXCEPT !.seq = @ + 1]
    /\ dirs' = Mkdir(dirs, get_current_sequence_dir(st'))
    /\ h' = [h EXCEPT !.created = get_current_sequence_dir(st')]
    /\ cs' = [cs EXCEPT !.pc = "get_name"]
    /\ UNCHANGED <<cam, pw, ui, files>>

\* run(): saved_dir_name = self.storage.get_current_sequence_dir().name
CsGetName ==
    /\ AtCs("get_name")
    /\ cs' = [cs EXCEPT !.saved_dir_name = SequenceDirName(st), !.shot = 1,
                        !.pc = "check_cancelled"]
    /\ UNCHANGED <<cam, pw, ui, st, dirs, files, h>>

\* a loop that looks at the cancellation flag before its first shot only
CsCheckCancelled_FirstShotOnly ==
    /\ AtCs("check_cancelled")
    /\ cs' = IF cs.shot > total_shots
             THEN [cs EXCEPT !.success = TRUE, !.pc = "finally"]
             ELSE IF cs.is_cancelled /\ cs.shot = 1
             THEN [cs EXCEPT !.exc = "cancel", !.pc = "except"]
             ELSE [cs EXCEPT !.pc = "progress"]
    /\ UNCHANGED <<cam, pw, ui, st, dirs, files, h>>

\* a loop that does not look at the cancellation flag before its last shot
CsCheckCancelled_LastShotExempt ==
    /\ AtCs("check_cancelled")
    /\ cs' = IF cs.shot > total_shots
             THEN [cs EXCEPT !.success = TRUE, !.pc = "finally"]
             ELSE IF cs.is_cancelled /\ cs.shot < total_shots
             THEN [cs EXCEPT !.exc = "cancel", !.pc = "except"]
             ELSE [cs EXCEPT !.pc = "progress"]
    /\ UNCHANGED <<cam, pw, ui, st, dirs, files, h>>

\* run(): the head of the for loop and _check_cancelled()
CsCheckCancelled ==
    /\ AtCs("check_cancelled")
    /\ cs' = IF cs.shot > total_shots
             THEN [cs EXCEPT !.success = TRUE, !.pc = "finally"]
             ELSE IF cs.is_cancelled
             THEN [cs EXCEPT !.exc = "cancel", !.pc = "except"]
             ELSE [cs EXCEPT !.pc = "progress"]
    /\ UNCHANGED <<cam, pw, ui, st, dirs, files, h>>

\* a loop that numbers its shots from 0 in progress_update
CsProgress_ZeroBased ==
    /\ AtCs("progress")
    /\ h' = [h EXCEPT !.events = Append(@, <<"progress", cs.shot - 1, total_shots>>),
                      !.shotLog = Append(@, cs.conditions[cs.shot]),
                      !.grabCalls = 0, !.saveCalls = 0,
                      !.fails = 0, !.setFails = 0, !.grabFails = 0]
    /\ cs' = [cs EXCEPT !.attempt = 1, !.last_error = "none", !.pc = "set_exposure"]
    /\ UNCHANGED <<cam, pw, ui, st, dirs, files>>

\* run(): progress_update.emit(shot_count, total_shots), then the first
\* attempt of _capture_with_retry begins
CsProgress ==
    /\ AtCs("progress")
    /\ h' = [h EXCEPT !.events = Append(@, <<"progress", cs.shot, total_shots>>),
                      !.shotLog = Append(@, cs.conditions[cs.shot]),
                      !.grabCalls = 0, !.saveCalls = 0,
                      !.fails = 0, !.setFails = 0, !.grabFails = 0]
    /\ cs' = [cs EXCEPT !.attempt = 1, !.last_error = "none", !.pc = "set_exposure"]
    /\ UNCHANGED <<cam, pw, ui, st, dirs, files>>

\* an attempt fails with an exception _capture_with_retry catches
AttemptFailed(cause) == [cs EXCEPT !.last_error = cause, !.pc = "sleep"]

\* the first camera call of a run closes the handshake's log
FirstDeviceCall(log) == IF cs.shot = 1 /\ cs.attempt = 1 THEN Append(log, "device") ELSE log

\* _execute_single_capture: self.camera.set_exposure(expo_ms); the camera
\* property raises RuntimeError on a closed handle, SetValue a pylon exception
CsSetExposure ==
    /\ AtCs("set_exposure")
    /\ \/ /\ cam.connected
          /\ cam' = [cam EXCEPT !.exposure = cs.conditions[cs.shot][1]]
          /\ cs' = [cs EXCEPT !.pc = "set_gain"]
          /\ h' = [h EXCEPT !.hs = FirstDeviceCall(@)]
       \/ /\ cam' = cam
          /\ cs' = AttemptFailed("set_exposure")
          /\ h' = [h EXCEPT !.hs = FirstDeviceCall(@), !.fails = @ + 1, !.setFails = @ + 1]
    /\ UNCHANGED <<pw, ui, st, dirs, files>>

\* _execute_single_capture: timeout_ms = int(expo_ms + 500), on exposures
\* that are whole numbers of milliseconds
timeout_ms(expo_ms) == expo_ms + 500

\* _execute_single_capture: self.camera.set_gain(gain)
CsSetGain ==
    /\ AtCs("set_gain")
    /\ \/ /\ cam.connected
          /\ cam' = [cam EXCEPT !.gain = cs.conditions[cs.shot][2]]
          /\ cs' = [cs EXCEPT !.pc = "grab_one"]
          /\ h' = [h EXCEPT !.grabAfterCancel = @ \/ cs.is_cancelled]
       \/ /\ cam' = cam
          /\ cs' = AttemptFailed("set_gain")
          /\ h' = [h EXCEPT !.fails = @ + 1, !.setFails = @ + 1]
    /\ UNCHANGED <<pw, ui, st, dirs, files>>

\* _execute_single_capture: raw_data = self.camera.grab_one(timeout_ms).
\* grab_one raises on a closed handle or while grabbing, and returns None on a
\* failed grab, a timeout or a pylon exception; None raises RuntimeError
CsGrabOne ==
    /\ AtCs("grab_one")
    /\ LET called == [h EXCEPT !.grabCalls = @ + 1, !.runGrabs = @ + h.counted,
                               !.grabTimeout = timeout_ms(cs.conditions[cs.shot][1])]
       IN  \/ /\ cam.connected /\ ~cam.grabbing
              /\ cs' = [cs EXCEPT !.pc = "save_frame"]
              /\ h' = called
           \/ /\ cam.connected /\ ~cam.grabbing
              /\ cs' = AttemptFailed("grab_none")
              /\ h' = [called EXCEPT !.fails = @ + 1, !.grabFails = @ + 1]
           \/ /\ ~cam.connected \/ cam.grabbing
              /\ cs' = AttemptFailed("grab_raise")
              /\ h' = [called EXCEPT !.fails = @ + 1, !.grabFails = @ + 1]
    /\ UNCHANGED <<cam, pw, ui, st, dirs, files>>

\* _execute_single_capture: self.storage.save_frame(raw_data, expo_ms, gain,
\* metadata).  It raises RuntimeError when the sequence directory does not
\* exist; TiffWriter.save may raise an OSError, which nothing catches
CsSaveFrame ==
    /\ AtCs("save_frame")
    /\ LET e == cs.conditions[cs.shot][1]
           g == cs.conditions[cs.shot][2]
           path == FramePath(st, e, g)
           content == <<h.runs, cs.shot, e, g>>
       IN  \/ /\ get_current_sequence_dir(st) \notin dirs
              /\ cs' = AttemptFailed("save_frame")
              /\ h' = [h EXCEPT !.saveCalls = @ + 1, !.runSaveCalls = @ + 1, !.fails = @ + 1]
              /\ files' = files
           \/ /\ get_current_sequence_dir(st) \in dirs
              /\ files' = WriteFile(files, path, content)
              /\ h' = [h EXCEPT !.saveCalls = @ + 1, !.runSaveCalls = @ + 1,
                                !.saved = Append(@, [path |-> path, content |-> content])]
              /\ cs' = [cs EXCEPT !.shot = @ + 1, !.pc = "check_cancelled"]
           \/ /\ get_current_sequence_dir(st) \in dirs
              /\ files' = files
              /\ h' = [h EXCEPT !.saveCalls = @ + 1, !.runSaveCalls = @ + 1]
              /\ cs' = [cs EXCEPT !.exc = "other", !.pc = "finally"]
    /\ UNCHANGED <<cam, pw, ui, st, dirs>>

\* a retry loop that gives a shot one attempt too many
CsSleep_OneMore ==
    /\ AtCs("sleep")
    /\ IF cs.attempt <= max_retries
       THEN /\ cs' = [cs EXCEPT !.attempt = @ + 1, !.pc = "set_exposure"]
            /\ h' = [h EXCEPT !.runSleeps = @ + h.counted]
       ELSE /\ cs' = [cs EXCEPT !.exc = "runtime", !.pc = "except"]
            /\ h' = [h EXCEPT !.exhausted = TRUE, !.runSleeps = @ + h.counted]
    /\ UNCHANGED <<cam, pw, ui, st, dirs, files>>

\* a retry loop that gives up on the shot and goes on with the next one
CsSleep_SkipAndContinue ==
    /\ AtCs("sleep")
    /\ IF cs.attempt < max_retries
       THEN /\ cs' = [cs EXCEPT !.attempt = @ + 1, !.pc = "set_exposure"]
            /\ h' = [h EXCEPT !.runSleeps = @ + h.counted]
       ELSE /\ cs' = [cs EXCEPT !.shot = @ + 1, !.pc = "check_cancelled"]
            /\ h' = [h EXCEPT !.exhausted = TRUE, !.runSleeps = @ + h.counted]
    /\ UNCHANGED <<cam, pw, ui, st, dirs, files>>

\* a retry loop that does not count its attempts
CsSleep_RetriesForever ==
    /\ AtCs("sleep")
    /\ cs' = [cs EXCEPT !.pc = "set_exposure"]
    /\ h' = [h EXCEPT !.runSleeps = @ + h.counted]
    /\ UNCHANGED <<cam, pw, ui, st, dirs, files>>

\* a retry that grabs again without setting exposure and gain again
CsSleep_RetryGrabsOnly ==
    /\ AtCs("sleep")
    /\ IF cs.attempt < max_retries
       THEN /\ cs' = [cs EXCEPT !.attempt = @ + 1, !.pc = "grab_one"]
            /\ h' = [h EXCEPT !.runSleeps = @ + h.counted]
       ELSE /\ cs' = [cs EXCEPT !.exc = "runtime", !.pc = "except"]
            /\ h' = [h EXCEPT !.exhausted = TRUE, !.runSleeps = @ + h.counted]
    /\ UNCHANGED <<cam, pw, ui, st, dirs, files>>

\* _capture_with_retry: the except clause (log, time.sleep(0.5)), then the
\* next round of the for loop or, after the last one,
\* self._raise_max_retry_error(expo_ms, gain, last_error)
CsSleep ==
    /\ AtCs("sleep")
    /\ IF cs.attempt < max_retries
       THEN /\ cs' = [cs EXCEPT !.attempt = @ + 1, !.pc = "set_exposure"]
            /\ h' = [h EXCEPT !.runSleeps = @ + h.counted]
       ELSE /\ cs' = [cs EXCEPT !.exc = "runtime", !.pc = "except"]
            /\ h' = [h EXCEPT !.exhausted = TRUE, !.runSleeps = @ + h.counted]
    /\ UNCHANGED <<cam, pw, ui, st, dirs, files>>

\* the message of the exception run() catches: the cancellation message, or
\* the retry message with the shot's exposure and gain
ErrorMessage ==
    IF cs.exc = "cancel" THEN <<"cancelled">>
    ELSE <<"max_retry", cs.conditions[cs.shot][1], cs.conditions[cs.shot][2]>>

\* run(): the two except clauses: error_occurred.emit(str(e))
CsExcept ==
    /\ AtCs("except")
    /\ h' = [h EXCEPT !.events = Append(@, <<"error", ErrorMessage>>)]
    /\ cs' = [cs EXCEPT !.pc = "finally"]
    /\ UNCHANGED <<cam, pw, ui, st, dirs, files>>

\* a run() that emits sequence_finished after the try statement, not in its
\* finally clause: an exception no clause catches skips it
CsFinally_AfterTry ==
    /\ AtCs("finally")
    /\ h' = IF cs.exc = "other" THEN h
            ELSE [h EXCEPT !.events = Append(@, <<"finished", cs.success, cs.saved_dir_name>>)]
    /\ ui' = IF cs.exc = "other" THEN ui
             ELSE [ui EXCEPT !.queue = Append(@, "sequence_finished")]
    /\ cs' = [cs EXCEPT !.thread = "finished", !.pc = "done"]
    /\ UNCHANGED <<cam, pw, st, dirs, files>>

\* run(): finally: sequence_finished.emit(success, saved_dir_name); the signal
\* is queued to the UI thread and the thread ends
CsFinally ==
    /\ AtCs("finally")
    /\ h' = [h EXCEPT !.events = Append(@, <<"finished", cs.success, cs.saved_dir_name>>)]
    /\ ui' = [ui EXCEPT !.queue = Append(@, "sequence_finished")]
    /\ cs' = [cs EXCEPT !.thread = "finished", !.pc = "done"]
    /\ UNCHANGED <<cam, pw, st, dirs, files>>

CaptureThread ==
    \/ CsMkdirRoot \/ CsMkdirExp \/ CsMkdirSeq \/ CsGetName
    \/ CsCheckCancelled \/ CsProgress \/ CsSetExposure \/ CsSetGain \/ CsGrabOne
    \/ CsSaveFrame \/ CsSleep \/ CsExcept \/ CsFinally

\* ------------------------------------------------ MainWindow: storage, cancel
\* the run has yet to call _check_cancelled() at the head of a loop round
CheckpointAhead ==
    \/ cs.pc \in {"start", "sns_exp", "sns_seq", "get_name"} /\ total_shots >= 1
    \/ cs.pc = "check_cancelled" /\ cs.shot <= total_shots
    \/ cs.pc \in {"progress", "set_exposure", "set_gain", "grab_one", "save_frame", "sleep"}
          /\ cs.shot < total_shots

\* _on_cancel_sequence: if self.capture_service and
\* self.capture_service.isRunning(): cancel(), the button disabled; else
\* nothing, which the history notes when the click comes between an accepted
\* Start and the start of its service
UICancel ==
    /\ ui.window = "open" /\ ui.btn_cancel
    /\ \/ /\ cs.thread = "running"
          /\ cs' = [cs EXCEPT !.is_cancelled = TRUE]
          /\ ui' = [ui EXCEPT !.btn_cancel = FALSE]
          /\ h' = [h EXCEPT !.cancelAfter =
                       IF cs.pc = "check_cancelled" /\ cs.shot >= 2 /\ cs.shot <= total_shots
                       THEN cs.shot - 1 ELSE 0,
                            !.cancelAt = IF CheckpointAhead THEN "before_checkpoint"
                                         ELSE "after_checkpoints"]
       \/ /\ cs.thread # "running"
          /\ h.hs # <<>> /\ \A i \in DOMAIN h.hs : h.hs[i] # "start"
          /\ h' = [h EXCEPT !.earlyCancel = TRUE]
          /\ UNCHANGED <<cs, ui>>
    /\ UNCHANGED <<cam, pw, st, dirs, files>>

\* _on_browse_root: self.storage.set_root_dir(dir_path)
UIBrowseRoot ==
    /\ ui.window = "open"
    /\ h.storageOps < MaxStorageOps
    /\ \E r \in Roots : st' = set_root_dir(st, r, dirs)
    /\ h' = [h EXCEPT !.storageOps = @ + 1]
    /\ UNCHANGED <<cam, pw, ui, cs, dirs, files>>

\* _on_new_branch: self.storage.increment_branch()
UINewBranch ==
    /\ ui.window = "open"
    /\ h.storageOps < MaxStorageOps
    /\ st.branch < MaxBranch
    /\ st' = increment_branch(st)
    /\ h' = [h EXCEPT !.storageOps = @ + 1]
    /\ UNCHANGED <<cam, pw, ui, cs, dirs, files>>

\* ------------------------------------------------- PreviewWorker.run thread
AtPw(pc) == pw.pc = pc

\* run(): self._is_running = True
PwEntry ==
    /\ AtPw("entry")
    /\ pw' = [pw EXCEPT !.is_running = TRUE, !.pc = "while"]
    /\ UNCHANGED <<cam, ui, cs, st, dirs, files, h>>

\* while self._is_running; pwErrors counts the error_occurred of one iteration
PwWhile ==
    /\ AtPw("while")
    /\ pw' = [pw EXCEPT !.pc = IF pw.is_running THEN "if_pause" ELSE "done"]
    /\ h' = [h EXCEPT !.pwErrors = 0]
    /\ UNCHANGED <<cam, ui, cs, st, dirs, files>>

\* a worker that confirms the pause without stopping the acquisition
PwIfPause_SkipsStop ==
    /\ AtPw("if_pause")
    /\ pw' = [pw EXCEPT !.pc = IF pw.pause_requested THEN "set_paused" ELSE "if_paused"]
    /\ UNCHANGED <<cam, ui, cs, st, dirs, files, h>>

\* if self._pause_requested
PwIfPause ==
    /\ AtPw("if_pause")
    /\ pw' = [pw EXCEPT !.pc = IF pw.pause_requested THEN "stop_grabbing" ELSE "if_paused"]
    /\ UNCHANGED <<cam, ui, cs, st, dirs, files, h>>

\* self.camera_device.stop_grabbing()
PwStopGrabbing ==
    /\ AtPw("stop_grabbing")
    /\ cam' = [cam EXCEPT !.grabbing = FALSE]
    /\ pw' = [pw EXCEPT !.pc = "set_paused"]
    /\ h' = [h EXCEPT !.hs = Append(@, "stop_grabbing")]
    /\ UNCHANGED <<ui, cs, st, dirs, files>>

\* self._is_paused = True
PwSetPaused ==
    /\ AtPw("set_paused")
    /\ pw' = [pw EXCEPT !.is_paused = TRUE, !.pc = "clear_request"]
    /\ h' = [h EXCEPT !.hs = Append(@, "paused")]
    /\ UNCHANGED <<cam, ui, cs, st, dirs, files>>

\* self._pause_requested = False
PwClearRequest ==
    /\ AtPw("clear_request")
    /\ pw' = [pw EXCEPT !.pause_requested = FALSE, !.pc = "emit_paused"]
    /\ UNCHANGED <<cam, ui, cs, st, dirs, files, h>>

\* self.preview_paused.emit(): the single-shot connection, when in place, is
\* taken down by the emission and its slot is queued to the UI thread
PwEmitPaused ==
    /\ AtPw("emit_paused")
    /\ ui' = IF ui.paused_conn
             THEN [ui EXCEPT !.paused_conn = FALSE, !.queue = Append(@, "preview_paused")]
             ELSE ui
    /\ pw' = [pw EXCEPT !.pc = "if_paused"]
    /\ h' = [h EXCEPT !.hs = Append(@, "preview_paused")]
    /\ UNCHANGED <<cam, cs, st, dirs, files>>

\* a worker that goes on polling the camera while paused
PwIfPaused_IgnoresPause ==
    /\ AtPw("if_paused")
    /\ pw' = [pw EXCEPT !.pc = "start_preview_grab"]
    /\ UNCHANGED <<cam, ui, cs, st, dirs, files, h>>

\* if self._is_paused
PwIfPaused ==
    /\ AtPw("if_paused")
    /\ pw' = [pw EXCEPT !.pc = IF pw.is_paused THEN "sleep" ELSE "start_preview_grab"]
    /\ UNCHANGED <<cam, ui, cs, st, dirs, files, h>>

\* a paused branch that drops a request made while it slept
PwSleep_ClearsRequest ==
    /\ AtPw("sleep")
    /\ pw' = [pw EXCEPT !.pause_requested = FALSE, !.pc = "while"]
    /\ UNCHANGED <<cam, ui, cs, st, dirs, files, h>>

\* time.sleep(0.1); continue
PwSleep ==
    /\ AtPw("sleep")
    /\ pw' = [pw EXCEPT !.pc = "while"]
    /\ UNCHANGED <<cam, ui, cs, st, dirs, files, h>>

\* self.camera_device.start_preview_grab()
PwStartPreviewGrab ==
    /\ AtPw("start_preview_grab")
    /\ cam' = [cam EXCEPT !.grabbing = cam.connected \/ @]
    /\ pw' = [pw EXCEPT !.pc = "get_exposure"]
    /\ UNCHANGED <<ui, cs, st, dirs, files, h>>

\* expo_time = self.camera_device.get_exposure(); on a closed handle the
\* camera property raises RuntimeError, which ends run()
PwGetExposure ==
    /\ AtPw("get_exposure")
    /\ pw' = [pw EXCEPT !.pc = IF cam.connected THEN "retrieve_preview_frame" ELSE "done"]
    /\ UNCHANGED <<cam, ui, cs, st, dirs, files, h>>

\* raw_image = self.camera_device.retrieve_preview_frame(...): a frame, or
\* None on a timeout, a failed grab, a closed handle or a stopped acquisition
PwRetrieve ==
    /\ AtPw("retrieve_preview_frame")
    /\ \/ /\ cam.connected /\ cam.grabbing
          /\ pw' = [pw EXCEPT !.pc = "publish"]
       \/ pw' = [pw EXCEPT !.pc = "while"]
    /\ UNCHANGED <<cam, ui, cs, st, dirs, files, h>>

\* the try block: histogram_ready.emit, the image processing and
\* image_ready.emit, any of which may raise
PwPublish ==
    /\ AtPw("publish")
    /\ \/ pw' = [pw EXCEPT !.pc = "while"]
       \/ pw' = [pw EXCEPT !.pc = "except"]
    /\ UNCHANGED <<cam, ui, cs, st, dirs, files, h>>

\* a handler that reports the error and gives up the loop
PwExcept_EndsLoop ==
    /\ AtPw("except")
    /\ pw' = [pw EXCEPT !.pc = "done"]
    /\ h' = [h EXCEPT !.pwErrors = @ + 1]
    /\ UNCHANGED <<cam, ui, cs, st, dirs, files>>

\* except Exception as e: self.error_occurred.emit(...), and the loop goes on
PwExcept ==
    /\ AtPw("except")
    /\ pw' = [pw EXCEPT !.pc = "while"]
    /\ h' = [h EXCEPT !.pwErrors = @ + 1]
    /\ UNCHANGED <<cam, ui, cs, st, dirs, files>>

PreviewThread ==
    \/ PwEntry \/ PwWhile \/ PwIfPause \/ PwStopGrabbing \/ PwSetPaused
    \/ PwClearRequest \/ PwEmitPaused \/ PwIfPaused \/ PwSleep
    \/ PwStartPreviewGrab \/ PwGetExposure \/ PwRetrieve \/ PwPublish \/ PwExcept

\* --------------------------------------------- MainWindow: the orchestration
\* the texts MainWindow.__init__ puts in the line edits, as the lists they
\* parse to
DefaultExposures == <<1, 2>>
DefaultGains == <<0>>

\* The user edits the exposure line edit, which stays enabled during a run.
\* <<>> stands for a text _parse_sequence_inputs returns ([], []) on: an
\* empty one or one that float() rejects.
EditTexts == { DefaultExposures, <<>> }

UIEditText ==
    /\ ui.window = "open"
    /\ \E text \in EditTexts \ {ui.edit_exp} : ui' = [ui EXCEPT !.edit_exp = text]
    /\ UNCHANGED <<cam, pw, cs, st, dirs, files, h>>

\* The values the user drags the exposure slider to.  The slider stays
\* enabled during a run: group_preview_state disables the two spin boxes only.
SliderValues == {3}

\* _on_preview_exp_slider_changed, the slot of slider_exp.valueChanged: the
\* spin box follows with its signals blocked, then camera.set_exposure(value)
\* on the UI thread
UIPreviewExpSliderChanged ==
    /\ ui.window = "open"
    /\ \E value \in SliderValues \ {ui.spin_exp} :
          /\ ui' = [ui EXCEPT !.spin_exp = value]
          /\ cam' = [cam EXCEPT !.exposure = value]
    /\ UNCHANGED <<pw, cs, st, dirs, files, h>>

\* a request_pause() that puts the loop in the paused state by itself
UIStartSequence_SetsPaused ==
    /\ ui.window = "open" /\ ui.btn_start
    /\ h.runs < MaxRuns
    /\ ui.edit_exp # <<>> /\ ui.edit_gain # <<>>
    /\ ui' = [ui EXCEPT !.btn_start = FALSE, !.btn_cancel = TRUE, !.paused_conn = TRUE]
    /\ pw' = [pw EXCEPT !.pause_requested = TRUE, !.is_paused = TRUE]
    /\ h' = [NewHistory(h.runs + 1, <<"request_pause">>) EXCEPT !.pwErrors = h.pwErrors]
    /\ UNCHANGED <<cam, cs, st, dirs, files>>

\* an _on_start_sequence that leaves the Start button enabled
UIStartSequence_LeavesStartEnabled ==
    /\ ui.window = "open" /\ ui.btn_start
    /\ h.runs < MaxRuns
    /\ ui.edit_exp # <<>> /\ ui.edit_gain # <<>>
    /\ ui' = [ui EXCEPT !.btn_cancel = TRUE, !.paused_conn = TRUE]
    /\ pw' = [pw EXCEPT !.pause_requested = TRUE]
    /\ h' = [NewHistory(h.runs + 1, <<"request_pause">>) EXCEPT !.pwErrors = h.pwErrors]
    /\ UNCHANGED <<cam, cs, st, dirs, files>>

\* _on_start_sequence: the lists parse and are not empty; the buttons; the
\* single-shot connection of preview_paused; preview_worker.request_pause()
UIStartSequence ==
    /\ ui.window = "open" /\ ui.btn_start
    /\ h.runs < MaxRuns
    /\ ui.edit_exp # <<>> /\ ui.edit_gain # <<>>
    /\ ui' = [ui EXCEPT !.btn_start = FALSE, !.btn_cancel = TRUE, !.paused_conn = TRUE]
    /\ pw' = [pw EXCEPT !.pause_requested = TRUE]
    /\ h' = [NewHistory(h.runs + 1, <<"request_pause">>) EXCEPT !.pwErrors = h.pwErrors]
    /\ UNCHANGED <<cam, cs, st, dirs, files>>

\* _start_capture_service_after_pause, the slot of preview_paused: the lists
\* are parsed again, the CaptureService is constructed and started
UIPreviewPaused ==
    /\ ui.window = "open"
    /\ ui.queue # <<>> /\ Head(ui.queue) = "preview_paused"
    /\ ui' = [ui EXCEPT !.queue = Tail(@)]
    /\ cs' = [NewService(ui.edit_exp, ui.edit_gain) EXCEPT !.thread = "running"]
    /\ h' = [h EXCEPT !.hs = Append(@, "start"), !.earlyCancel = FALSE]
    /\ UNCHANGED <<cam, pw, st, dirs, files>>

\* a slot that restores the buttons and forgets preview_worker.resume()
UISequenceFinished_NoResume ==
    /\ ui.window = "open"
    /\ ui.queue # <<>> /\ Head(ui.queue) = "sequence_finished"
    /\ ui' = [ui EXCEPT !.queue = Tail(@), !.btn_start = TRUE, !.btn_cancel = FALSE]
    /\ UNCHANGED <<cam, pw, cs, st, dirs, files, h>>

\* _on_sequence_finished, the slot of sequence_finished: the buttons, then
\* preview_worker.resume()
UISequenceFinished ==
    /\ ui.window = "open"
    /\ ui.queue # <<>> /\ Head(ui.queue) = "sequence_finished"
    /\ ui' = [ui EXCEPT !.queue = Tail(@), !.btn_start = TRUE, !.btn_cancel = FALSE]
    /\ pw' = [pw EXCEPT !.is_paused = FALSE]
    /\ UNCHANGED <<cam, cs, st, dirs, files, h>>

\* closeEvent: refused while a capture runs; preview_worker.stop(), then the
\* UI thread blocks in preview_worker.wait(2000)
UIClose ==
    /\ ui.window = "open"
    /\ cs.thread # "running"
    /\ pw' = [pw EXCEPT !.is_running = FALSE]
    /\ ui' = [ui EXCEPT !.window = "closing"]
    /\ UNCHANGED <<cam, cs, st, dirs, files, h>>

\* closeEvent: wait() has returned, the thread over or the 2000 ms used up;
\* camera.disconnect(); the closed window handles no further event
UICloseDisconnect ==
    /\ ui.window = "closing"
    /\ cam' = [cam EXCEPT !.connected = FALSE, !.grabbing = FALSE]
    /\ ui' = [ui EXCEPT !.window = "closed"]
    /\ UNCHANGED <<pw, cs, st, dirs, files, h>>

\* ------------------------------------------------------- the application
\* The state MainWindow.__init__ leaves: the camera connected, the preview
\* thread started, no CaptureService yet, the default lists in the line edits.
Init ==
    /\ cam = [connected |-> TRUE, grabbing |-> FALSE, exposure |-> 0, gain |-> 0]
    /\ pw = [pc |-> "entry", is_running |-> FALSE, pause_requested |-> FALSE,
             is_paused |-> FALSE]
    /\ ui = [btn_start |-> TRUE, btn_cancel |-> FALSE, paused_conn |-> FALSE,
             queue |-> <<>>, edit_exp |-> DefaultExposures, edit_gain |-> DefaultGains,
             window |-> "open", spin_exp |-> 0]
    /\ cs = NewService(<<>>, <<>>)
    /\ \E r \in Roots : st = NewStorage(r, InitDirs)
    /\ dirs = InitDirs
    /\ files = {}
    /\ h = NewHistory(0, <<>>)

Next ==
    \/ PreviewThread
    \/ CaptureThread
    \/ UIStartSequence \/ UIPreviewPaused \/ UISequenceFinished \/ UICancel
    \/ UIEditText \/ UIPreviewExpSliderChanged \/ UIClose \/ UICloseDisconnect

Spec == Init /\ [][Next]_vars

\* The worker threads run whenever they can, and the event loop of the UI
\* thread delivers every queued signal.
SpecLive ==
    /\ Spec
    /\ WF_vars(PreviewThread)
    /\ WF_vars(CaptureThread)
    /\ WF_vars(UIPreviewPaused)
    /\ WF_vars(UISequenceFinished)

\* ------------------------------------- a CaptureService run under its caller
\* The service is constructed on lists of the caller's choice and started,
\* with the preview paused; the caller may cancel, browse to a root and open
\* a new branch while the run goes on.
ExposureLists == SeqsUpTo(ExposureValues, MaxLen)

InitRun ==
    /\ cam = [connected |-> TRUE, grabbing |-> FALSE, exposure |-> 0, gain |-> 0]
    /\ pw = [pc |-> "sleep", is_running |-> TRUE, pause_requested |-> FALSE,
             is_paused |-> TRUE]
    /\ \E E \in ExposureLists, G \in GainLists :
          /\ ui = [btn_start |-> FALSE, btn_cancel |-> TRUE, paused_conn |-> FALSE,
                   queue |-> <<>>, edit_exp |-> E, edit_gain |-> G, window |-> "open",
                   spin_exp |-> 0]
          /\ cs = [NewService(E, G) EXCEPT !.thread = "running"]
    /\ \E r \in Roots : st = NewStorage(r, InitDirs)
    /\ dirs = InitDirs
    /\ files = {}
    /\ h = NewHistory(1, <<>>)

NextRun ==
    \/ CaptureThread
    \/ UICancel \/ UIBrowseRoot \/ UINewBranch \/ UIPreviewExpSliderChanged

SpecRun == InitRun /\ [][NextRun]_vars

\* The same run with its grab_one calls and retry delays totalled, the
\* capture thread running whenever it can; the caller may cancel.
InitTotals ==
    /\ cam = [connected |-> TRUE, grabbing |-> FALSE, exposure |-> 0, gain |-> 0]
    /\ pw = [pc |-> "sleep", is_running |-> TRUE, pause_requested |-> FALSE,
             is_paused |-> TRUE]
    /\ \E E \in ExposureLists, G \in GainLists :
          /\ ui = [btn_start |-> FALSE, btn_cancel |-> TRUE, paused_conn |-> FALSE,
                   queue |-> <<>>, edit_exp |-> E, edit_gain |-> G, window |-> "open",
                   spin_exp |-> 0]
          /\ cs = [NewService(E, G) EXCEPT !.thread = "running"]
    /\ st = NewStorage("rootA", InitDirs)
    /\ dirs = InitDirs
    /\ files = {}
    /\ h = [NewHistory(1, <<>>) EXCEPT !.counted = 1]

NextTotals == CaptureThread \/ UICancel

SpecTotals == InitTotals /\ [][NextTotals]_vars /\ WF_vars(CaptureThread)

\* ------------------------------------ an ExperimentStorage under its caller
\* The storage is constructed on a root and its methods are called one after
\* the other, as the tests of the storage do.  rootA does not exist; rootB is
\* as above; rootC holds {date} and {date}-2 with image_005 in it; rootD
\* holds {date} with image_999.
TestRoots == Roots \cup {"rootC", "rootD"}

TestDirs ==
    InitDirs \cup { <<"rootC">>, <<"rootC", 1>>, <<"rootC", 2>>, <<"rootC", 2, 5>>,
                    <<"rootD">>, <<"rootD", 1>>, <<"rootD", 1, 999>> }

Called(name) ==
    [h EXCEPT !.calls = @ + 1, !.lastCall = name, !.prevCall = h.lastCall, !.prevSt = st]

\* a set_root_dir that creates the root it is given
StSetRootDir_CreatesRoot ==
    /\ h.calls < MaxCalls
    /\ \E r \in TestRoots :
          /\ dirs' = Mkdir(dirs, <<r>>)
          /\ st' = set_root_dir(st, r, dirs')
    /\ h' = [Called("set_root_dir") EXCEPT !.started = FALSE]
    /\ UNCHANGED <<cam, pw, ui, cs, files>>

StSetRootDir ==
    /\ h.calls < MaxCalls
    /\ \E r \in TestRoots : st' = set_root_dir(st, r, dirs)
    /\ h' = [Called("set_root_dir") EXCEPT !.started = FALSE]
    /\ UNCHANGED <<cam, pw, ui, cs, dirs, files>>

StIncrementBranch ==
    /\ h.calls < MaxCalls
    /\ st' = increment_branch(st)
    /\ h' = [Called("increment_branch") EXCEPT !.started = FALSE]
    /\ UNCHANGED <<cam, pw, ui, cs, dirs, files>>

\* a start_new_sequence that takes the first number free in the branch
StStartNewSequence_FirstFree ==
    /\ h.calls < MaxCalls
    /\ LET free == { n \in 1..(st.seq + 1) : <<st.root, st.branch, n>> \notin dirs }
       IN  st' = [st EXCEPT !.seq = CHOOSE n \in free : \A m \in free : n <= m]
    /\ dirs' = Mkdir(dirs, get_current_sequence_dir(st'))
    /\ h' = [Called("start_new_sequence") EXCEPT !.started = TRUE]
    /\ UNCHANGED <<cam, pw, ui, cs, files>>

\* start_new_sequence, its three mkdir calls succeeding
StStartNewSequence ==
    /\ h.calls < MaxCalls
    /\ st' = [st EXCEPT !.seq = @ + 1]
    /\ dirs' = Mkdir(Mkdir(Mkdir(dirs, <<st.root>>), get_current_experiment_dir(st)),
                     get_current_sequence_dir(st'))
    /\ h' = [Called("start_new_sequence") EXCEPT !.started = TRUE]
    /\ UNCHANGED <<cam, pw, ui, cs, files>>

\* save_frame: RuntimeError when the sequence directory does not exist, else
\* the file is written
StSaveFrame ==
    /\ h.calls < MaxCalls
    /\ IF get_current_sequence_dir(st) \notin dirs
       THEN /\ files' = files
            /\ h' = [Called("save_frame") EXCEPT !.saveError = TRUE]
       ELSE /\ files' = WriteFile(files, FramePath(st, 1, 0), <<h.calls>>)
            /\ h' = [Called("save_frame") EXCEPT !.saveError = FALSE]
    /\ UNCHANGED <<cam, pw, ui, cs, st, dirs>>

InitStorage ==
    /\ cam = [connected |-> TRUE, grabbing |-> FALSE, exposure |-> 0, gain |-> 0]
    /\ pw = [pc |-> "entry", is_running |-> FALSE, pause_requested |-> FALSE,
             is_paused |-> FALSE]
    /\ ui = [btn_start |-> TRUE, btn_cancel |-> FALSE, paused_conn |-> FALSE,
             queue |-> <<>>, edit_exp |-> DefaultExposures, edit_gain |-> DefaultGains,
             window |-> "open", spin_exp |-> 0]
    /\ cs = NewService(<<>>, <<>>)
    /\ \E r \in TestRoots : st = NewStorage(r, TestDirs)
    /\ dirs = TestDirs
    /\ files = {}
    /\ h = NewHistory(0, <<>>)

NextStorage == StSetRootDir \/ StIncrementBranch \/ StStartNewSequence \/ StSaveFrame

SpecStorage == InitStorage /\ [][NextStorage]_vars

\* ---------------------------------------------------------------- properties
IsPrefix(s, t) == Len(s) <= Len(t) /\ \A i \in 1..Len(s) : s[i] = t[i]

\* C1: the capture thread is never at a camera call (set_exposure, set_gain,
\* grab_one) while the preview thread is at one (stop_grabbing,
\* start_preview_grab, get_exposure, retrieve_preview_frame) or while the
\* continuous acquisition is on; grab_one finds the acquisition stopped.
C1_MutualExclusion ==
    (cs.thread = "running" /\ cs.pc \in CsCameraCalls)
        => (pw.pc \notin PwCameraCalls /\ ~cam.grabbing)

\* the second run is at grab_one, its preview paused again after a resume
C1_Witness ==
    /\ AtCs("grab_one") /\ h.runs = MaxRuns
    /\ pw.pc = "sleep" /\ pw.is_paused

\* C2: in every run the steps of the handshake come in the order
\* request_pause, stop_grabbing, Paused, preview_paused, CaptureService.start,
\* first camera call of the run.
HandshakeOrder ==
    <<"request_pause", "stop_grabbing", "paused", "preview_paused", "start", "device">>

C2_HandshakeOrder == IsPrefix(h.hs, HandshakeOrder)

C2_Witness == h.hs = HandshakeOrder /\ AtCs("set_gain")

\* C3: once a run has emitted sequence_finished, the preview loop is later
\* Running again (not paused, no pause requested) with the continuous
\* acquisition on, unless the window was closed (stop() called).
PreviewRunning ==
    /\ pw.is_running /\ ~pw.is_paused /\ ~pw.pause_requested
    /\ pw.pc \in {"get_exposure", "retrieve_preview_frame", "publish"}
    /\ cam.grabbing

SequenceFinishedPending ==
    \E i \in DOMAIN ui.queue : ui.queue[i] = "sequence_finished"

C3_ResumeAfterFinished ==
    SequenceFinishedPending ~> (PreviewRunning \/ ui.window # "open")

\* the preview publishes frames again after the last run
C3_Witness ==
    /\ h.runs = MaxRuns /\ cs.thread = "finished" /\ Len(h.hs) >= 5
    /\ PreviewRunning /\ pw.pc = "publish"

\* -------------------------------------- properties of one CaptureService run
EventsOf(kind) == { i \in DOMAIN h.events : h.events[i][1] = kind }

LastEvent == h.events[Len(h.events)]

RunOver == cs.pc = "done"

\* C4: a run emits sequence_finished exactly once, as its last signal, however
\* it ends; until then it has emitted none.
C4_FinishedOnceAndLast ==
    IF RunOver
    THEN Cardinality(EventsOf("finished")) = 1 /\ LastEvent[1] = "finished"
    ELSE EventsOf("finished") = {}

\* a run ended by an OSError out of save_frame, after a frame was saved
C4_Witness == RunOver /\ cs.exc = "other" /\ Len(h.saved) >= 1

\* ascending, and the same elements with the same multiplicities
IsSortedCopyOf(s, t) ==
    /\ Len(s) = Len(t)
    /\ \A i \in 1..(Len(s) - 1) : s[i] <= s[i + 1]
    /\ \A v \in { t[i] : i \in DOMAIN t } \cup { s[i] : i \in DOMAIN s } :
          Cardinality({ i \in DOMAIN s : s[i] = v }) = Cardinality({ i \in DOMAIN t : t[i] = v })

\* C5: the shot list is the product of the sorted exposure list (outer) and
\* the sorted gain list (inner), duplicates kept; total_shots is |E| x |G|; the
\* shots begun are, in order, the first shots of that list, and all of them
\* when the run succeeds.
C5_ShotListIsSortedProduct ==
    LET E == ui.edit_exp
        G == ui.edit_gain
        n == Len(G)
        c == cs.conditions
        SE == [i \in 1..Len(E) |-> c[(i - 1) * n + 1][1]]
        SG == [j \in 1..n |-> c[j][2]]
    IN  /\ total_shots = Len(E) * Len(G)
        /\ IsSortedCopyOf(SE, E)
        /\ IsSortedCopyOf(SG, G)
        /\ \A i \in 1..Len(E) : \A j \in 1..n : c[(i - 1) * n + j] = <<SE[i], SG[j]>>
        /\ IsPrefix(h.shotLog, c)
        /\ (RunOver /\ cs.success) => h.shotLog = c

\* a successful run on lists given in descending order
C5_Witness ==
    /\ RunOver /\ cs.success
    /\ ui.edit_exp = <<2, 1>> /\ ui.edit_gain = <<1, 0>>

\* C6: a run that reports success has called save_frame total_shots times,
\* once per shot, and its sequence_finished carries the name of the directory
\* its start_new_sequence created.
C6_SuccessSavesAllAndNamesDir ==
    (RunOver /\ cs.success) =>
        /\ h.runSaveCalls = total_shots
        /\ Len(h.saved) = total_shots
        /\ LastEvent = <<"finished", TRUE, <<h.created[3]>> >>

ShotPositions == {"set_exposure", "set_gain", "grab_one", "save_frame", "sleep"}

\* C7, as amended: a shot gets at most max_retries attempts, a new one after
\* each failed one and none after a successful one; no error is emitted while
\* attempts remain; every attempt in which set_exposure and set_gain returned
\* calls grab_one once, and every attempt in which grab_one returned a frame
\* calls save_frame once; a shot whose attempts all fail ends the run with
\* failure, and when they all failed in grab_one, grab_one was called
\* max_retries times for it and save_frame not at all.
C7_RetryPerShot ==
    /\ (cs.thread = "running" /\ cs.pc \in ShotPositions) =>
          /\ cs.attempt \in 1..max_retries
          /\ h.fails = IF cs.pc = "sleep" THEN cs.attempt ELSE cs.attempt - 1
          /\ h.grabCalls = h.fails - h.setFails + (IF cs.pc = "save_frame" THEN 1 ELSE 0)
          /\ h.saveCalls = h.fails - h.setFails - h.grabFails
          /\ EventsOf("error") = {}
    /\ h.exhausted =>
          /\ cs.attempt = max_retries /\ h.fails = max_retries
          /\ h.grabCalls = max_retries - h.setFails
          /\ h.saveCalls = h.grabCalls - h.grabFails
          /\ (h.grabFails = max_retries => h.grabCalls = max_retries /\ h.saveCalls = 0)
          /\ ~cs.success
          /\ RunOver => LastEvent = <<"finished", FALSE, cs.saved_dir_name>>

\* a run over after a shot failed three times in grab_one
C7_Witness == RunOver /\ h.exhausted /\ h.grabFails = max_retries

\* C7 as stated: when every attempt of a shot has failed, grab_one was called
\* exactly max_retries times for it and save_frame never.
C7_Original == h.exhausted => (h.grabCalls = max_retries /\ h.saveCalls = 0)

\* C8: once a shot has failed all its attempts the run makes no camera call
\* and no save_frame call, begins no shot and emits nothing but the error and
\* sequence_finished (the device changes only by the user's slider).
C8_AbortAfterExhaustion ==
    [][ h.exhausted =>
          /\ cs'.pc \in {"except", "finally", "done"}
          /\ (cam' = cam \/ ui'.spin_exp # ui.spin_exp) /\ files' = files
          /\ h'.grabCalls = h.grabCalls /\ h'.runSaveCalls = h.runSaveCalls
          /\ h'.shotLog = h.shotLog
          /\ \/ h'.events = h.events
             \/ \E kind \in {"error", "finished"} :
                   /\ Len(h'.events) = Len(h.events) + 1
                   /\ SubSeq(h'.events, 1, Len(h.events)) = h.events
                   /\ h'.events[Len(h'.events)][1] = kind ]_vars

\* a run over after its first shot failed, the later shots never begun
C8_Witness == RunOver /\ h.exhausted /\ cs.shot = 1 /\ total_shots > 1 /\ Len(h.shotLog) = 1

\* C9: when a run ends in failure or cancellation, every frame its earlier
\* shots saved is still on disk with its content.
C9_SavedFramesKept ==
    (RunOver /\ ~cs.success) => \A i \in DOMAIN h.saved : h.saved[i] \in files

\* C10: when cancel() comes after shot k and before the checkpoint of shot
\* k+1, the run saves exactly k frames, begins no shot after k (no camera call
\* for it), and ends with the cancellation message, not the retry message,
\* and sequence_finished(False).
C10_CancelBetweenShots ==
    h.cancelAfter > 0 =>
        /\ cs.is_cancelled /\ cs.shot = h.cancelAfter + 1
        /\ cs.pc \in {"check_cancelled", "except", "finally", "done"}
        /\ Len(h.saved) = h.cancelAfter
        /\ Len(h.shotLog) = h.cancelAfter
        /\ ~cs.success /\ ~h.exhausted
        /\ cs.pc \in {"finally", "done"} =>
              \A i \in EventsOf("error") : h.events[i] = <<"error", <<"cancelled">> >>
        /\ cs.pc \in {"finally", "done"} => Cardinality(EventsOf("error")) = 1
        /\ RunOver => LastEvent = <<"finished", FALSE, cs.saved_dir_name>>

\* a run of four shots cancelled after its second, over
C10_Witness == RunOver /\ h.cancelAfter = 2 /\ total_shots = 4

CancelledMessage == <<"error", <<"cancelled">> >>

\* C11, as amended: a cancel() that comes while a checkpoint of the run is
\* still ahead is reflected in the terminal event as a failure, and the error
\* emitted is the cancellation message unless the shot in flight used up its
\* attempts or an exception run() does not catch ended the run first; the
\* cancellation message is emitted for no other reason than a cancel().
C11_CancelReflected ==
    /\ (RunOver /\ h.cancelAt = "before_checkpoint") =>
          /\ ~cs.success
          /\ LastEvent = <<"finished", FALSE, cs.saved_dir_name>>
          /\ (~h.exhausted /\ cs.exc # "other") =>
                { h.events[i] : i \in EventsOf("error") } = {CancelledMessage}
    /\ (\E i \in EventsOf("error") : h.events[i] = CancelledMessage) => cs.is_cancelled

\* a run cancelled during its second shot, over with the cancellation message
C11_Witness ==
    /\ RunOver /\ h.cancelAt = "before_checkpoint" /\ h.cancelAfter = 0
    /\ cs.exc = "cancel" /\ Len(h.saved) = 2

\* C11 as stated: a run on which cancel() was called before its terminal
\* event ends in failure with the cancellation message.
C11_Original ==
    (RunOver /\ h.cancelAt # "none") =>
        /\ ~cs.success
        /\ \E i \in EventsOf("error") : h.events[i] = CancelledMessage

\* C12: once cancel() has been called the run starts no grab_one call.
C12_NoGrabAfterCancel == ~h.grabAfterCancel

\* C13: a save_frame that fails because the sequence directory is missing is
\* not retried: the shot makes no further attempt and the run ends.
C13_SaveErrorNotRetried ==
    cs.last_error = "save_frame" => cs.pc \in {"sleep", "except", "finally", "done"}

\* ------------------------------------- properties of the ExperimentStorage
\* the step is a call of the method
CallOf(name) == h'.calls = h.calls + 1 /\ h'.lastCall = name

\* C14: a save_frame called when no start_new_sequence has been called since
\* the construction, the last set_root_dir and the last increment_branch
\* raises and writes no file.
C14_SaveWithoutSequenceFails ==
    [][ (CallOf("save_frame") /\ ~h.started) => (h'.saveError /\ files' = files) ]_vars

\* C15: the directories on disk change in start_new_sequence only, which adds
\* the root, the branch directory and the sequence directory and removes
\* nothing; set_root_dir, increment_branch and save_frame leave them alone.
C15_OnlyStartCreatesDirs ==
    [][ /\ dirs' # dirs => CallOf("start_new_sequence")
        /\ CallOf("start_new_sequence") =>
              dirs' = dirs \cup { <<st'.root>>, <<st'.root, st'.branch>>,
                                  <<st'.root, st'.branch, st'.seq>> } ]_vars

\* a storage constructed on a root that did not exist, after its first
\* start_new_sequence
C15_Witness ==
    /\ h.calls = 1 /\ h.lastCall = "start_new_sequence"
    /\ st.root = "rootA" /\ get_current_sequence_dir(st) \in dirs

\* C16: a run that has created its sequence directory and is over has begun
\* at least one shot.
C16_SequenceDirHasShot == (RunOver /\ h.created # <<>>) => Len(h.shotLog) >= 1

\* C17: while the root stays the same the branch number never decreases, and
\* the sequence number decreases in increment_branch only.
C17_NumbersMonotonic ==
    [][ st'.root = st.root =>
          /\ st'.branch >= st.branch
          /\ st'.seq >= st.seq \/ CallOf("increment_branch") ]_vars

\* the numbers a reader of the directory names finds: the greatest branch
\* under the root, or 1, and the greatest image_{nnn} of three digits in a
\* branch, or 0
MaxBranchOnDisk(root) ==
    SetMax({ b \in 1..(MaxBranch + MaxCalls + 1) : <<root, b>> \in dirs }, 1)

MaxSequenceOnDisk(root, branch) ==
    SetMax({ n \in 1..999 : <<root, branch, n>> \in dirs }, 0)

\* C18: after set_root_dir(p) the branch number is the greatest one on disk
\* under p, or 1, and the sequence number the greatest image_{nnn} in that
\* branch, or 0, whatever the state was before.
C18_RootScan ==
    h.lastCall = "set_root_dir" =>
        /\ st.branch = MaxBranchOnDisk(st.root)
        /\ st.seq = MaxSequenceOnDisk(st.root, st.branch)

\* C19: start_new_sequence adds exactly 1 to the sequence counter, keeps the
\* root and the branch, and makes image_{counter} in the current branch; the
\* number is above every number the scan reads in the branch, so no gap is
\* filled.
C19_NextSequence ==
    [][ CallOf("start_new_sequence") =>
          /\ st' = [st EXCEPT !.seq = @ + 1]
          /\ get_current_sequence_dir(st') \in dirs'
          /\ \A d \in dirs : (Len(d) = 3 /\ d[1] = st.root /\ d[2] = st.branch)
                                 => ScanSeq(d[3]) < st'.seq ]_vars

\* the scan of rootC found image_005 in {date}-2: the next one is image_006
C19_Witness ==
    /\ h.lastCall = "start_new_sequence"
    /\ st = [root |-> "rootC", branch |-> 2, seq |-> 6]
    /\ <<"rootC", 2, 6>> \in dirs /\ <<"rootC", 2, 1>> \notin dirs

\* C20: increment_branch adds exactly 1 to the branch number, sets the
\* sequence counter to 0 and touches neither directories nor files; the
\* start_new_sequence that follows it creates the branch directory and
\* image_001 in it; no call removes a directory.
C20_IncrementBranch ==
    [][ /\ CallOf("increment_branch") =>
              /\ st' = [root |-> st.root, branch |-> st.branch + 1, seq |-> 0]
              /\ dirs' = dirs /\ files' = files
        /\ (h.lastCall = "increment_branch" /\ CallOf("start_new_sequence")) =>
              /\ get_current_experiment_dir(st) \notin dirs
              /\ st'.seq = 1
              /\ {get_current_experiment_dir(st), <<st.root, st.branch, 1>>} \subseteq dirs'
        /\ dirs \subseteq dirs' ]_vars

\* New branch {date}-3 opened on rootC after a sequence in {date}-2, and its
\* first sequence started
C20_Witness ==
    /\ h.lastCall = "start_new_sequence"
    /\ st = [root |-> "rootC", branch |-> 3, seq |-> 1]
    /\ {<<"rootC", 3, 1>>, <<"rootC", 2, 6>>, <<"rootC", 2, 5>>} \subseteq dirs

\* C21: a set_root_dir that follows a set_root_dir with the same path, the
\* directories unchanged in between, leaves the branch number and the
\* sequence number as the first call left them.
C21_SetRootDirIdempotent ==
    (h.prevCall = "set_root_dir" /\ h.lastCall = "set_root_dir" /\ h.prevSt.root = st.root)
        => st = h.prevSt

\* rootC set twice after a new branch was opened: {date}-2 and image_005 both
\* times
C21_Witness ==
    /\ h.calls = 3 /\ h.prevCall = "set_root_dir" /\ h.lastCall = "set_root_dir"
    /\ h.prevSt = [root |-> "rootC", branch |-> 2, seq |-> 5] /\ st = h.prevSt

\* C22: after a start_new_sequence, a storage constructed anew on the same
\* root finds the branch number and the sequence number of the storage that
\* made the directories.
C22_FreshStorageResumes ==
    h.lastCall = "start_new_sequence" => NewStorage(st.root, dirs) = st

\* C23: every frame a run saves lies in the image_nnn directory that the
\* run's start_new_sequence created, under the name made of that directory's
\* branch and sequence number and of the shot's exposure and gain, whatever
\* set_root_dir and increment_branch the UI thread calls in between.
C23_FramesInRunDirectory ==
    \A i \in DOMAIN h.saved :
        LET shot == cs.conditions[h.saved[i].content[2]]
        IN  /\ Len(h.created) = 3
            /\ h.saved[i].path = h.created \o <<FormatG(shot[1]), FormatG(shot[2])>>

\* C24: while a run goes on, the exposure and the gain of the device are
\* written by the capture thread only (in its set_exposure and set_gain),
\* and the branch number and the sequence counter of the storage are changed
\* by the capture thread only (in its start_new_sequence).
C24_SingleWriter ==
    [][ cs.thread = "running" =>
          /\ (cam'.exposure # cam.exposure \/ cam'.gain # cam.gain) =>
                (cs.pc \in {"set_exposure", "set_gain"} /\ cs'.pc # cs.pc)
          /\ (st'.branch # st.branch \/ st'.seq # st.seq) =>
                (cs.pc = "sns_seq" /\ cs'.pc = "get_name") ]_vars

\* C25: whenever the preview loop is Running again after a capture run, the
\* exposure of the device is the preview's last-known one (the value of the
\* preview's spin box), not the one of the run's last shot.
C25_PreviewSettingsRestored ==
    (cs.thread = "finished" /\ ~SequenceFinishedPending /\ PreviewRunning)
        => cam.exposure = ui.spin_exp

\* C26: while the preview loop is paused it is at none of its camera calls
\* and the continuous acquisition is off; the loop becomes paused only by its
\* own step, the one after its stop_grabbing, never by request_pause().
C26_PausedIsIdle ==
    /\ [](pw.is_paused => (pw.pc \notin PwCameraCalls /\ ~cam.grabbing))
    /\ [][ (~pw.is_paused /\ pw'.is_paused) =>
             (pw.pc = "set_paused" /\ pw'.pc = "clear_request" /\ ~cam.grabbing) ]_vars

\* the loop asleep in its paused branch while the capture thread grabs
C26_Witness == pw.is_paused /\ pw.pc = "sleep" /\ AtCs("grab_one") /\ ~cam.grabbing

\* C27: every request_pause() made while the preview loop is alive is
\* answered, when the worker thread keeps running, by a preview_paused
\* emitted with the loop paused, also when the request comes right after a
\* resume(); a closed window (stop() called) ends the obligation.
PauseAnswered ==
    /\ pw.is_paused /\ ~pw.pause_requested
    /\ h.hs # <<>> /\ h.hs[Len(h.hs)] = "preview_paused"

C27_PauseRequestAnswered ==
    pw.pause_requested ~> (PauseAnswered \/ ui.window # "open")

\* the request of the second run, made after the resume() that ended the
\* first, has been answered
C27_Witness ==
    /\ h.runs = 2 /\ PauseAnswered
    /\ h.hs = <<"request_pause", "stop_grabbing", "paused", "preview_paused">>

\* C28: once stop() has been called (the window is no longer open) the
\* preview loop begins no further iteration: its while test does not pass
\* again, wherever the thread was when stop() came.
C28_StopEndsLoop ==
    [][ ui.window # "open" => ~(pw.pc = "while" /\ pw'.pc = "if_pause") ]_vars

\* C29: in the preview loop a retrieve that returns no frame emits no error
\* and changes nothing but the loop's position, an exception in the
\* processing or publishing of a frame emits error_occurred exactly once, and
\* after either the loop is still running and at the head of its next
\* iteration.
C29_TimeoutAndErrorKeepLoop ==
    /\ [](h.pwErrors <= 1 /\ (pw.pc = "except" => h.pwErrors = 0))
    /\ [][ /\ (pw.pc = "retrieve_preview_frame" /\ pw'.pc \notin {"publish", pw.pc}) =>
                /\ pw' = [pw EXCEPT !.pc = "while"]
                /\ h' = h /\ cam' = cam /\ ui' = ui
           /\ (pw.pc = "except" /\ pw'.pc # pw.pc) =>
                /\ pw' = [pw EXCEPT !.pc = "while"]
                /\ h'.pwErrors = 1 /\ cam' = cam
           /\ (pw.pc = "while" /\ pw'.pc # pw.pc /\ pw.is_running) => pw'.pc = "if_pause" ]_vars

\* the loop back at its while test, still running, after an iteration that
\* reported an error
C29_Witness ==
    /\ pw.pc = "while" /\ h.pwErrors = 1 /\ pw.is_running
    /\ cam.grabbing /\ ui.window = "open"

\* C30: the progress_update signals of a run are its first signals and the
\* k-th carries (k, total_shots); there is one per shot begun, emitted before
\* the shot's first attempt and not again on a retry, never more than
\* total_shots; a successful run has emitted 1..total_shots.
C30_ProgressPerShot ==
    LET n == Cardinality(EventsOf("progress"))
    IN  /\ n <= total_shots
        /\ \A k \in 1..n : h.events[k] = <<"progress", k, total_shots>>
        /\ (cs.thread = "running" /\ cs.pc \in ShotPositions) => n = cs.shot
        /\ (cs.thread = "running" /\ cs.pc \in {"check_cancelled", "progress"})
               => n = cs.shot - 1
        /\ (RunOver /\ cs.success) => n = total_shots

\* a successful run of several shots whose last shot needed a retry
C30_Witness ==
    /\ RunOver /\ cs.success /\ total_shots >= 2 /\ h.fails >= 1
    /\ Cardinality(EventsOf("progress")) = total_shots

\* C31: when a shot has failed all its attempts, the error the run emits
\* names the shot's exposure and gain and carries the cause of the last
\* failed attempt.
C31_ErrorCarriesCause ==
    (RunOver /\ h.exhausted) =>
        \E i \in EventsOf("error") :
            LET message == h.events[i][2]
                shot == cs.conditions[cs.shot]
            IN  /\ SubSeq(message, 1, 3) = <<"max_retry", shot[1], shot[2]>>
                /\ Len(message) >= 4 /\ message[4] = cs.last_error

\* C32: a run emits error_occurred exactly once when it ends in failure,
\* whatever ended it, and not at all when it ends in success.
C32_ErrorIffFailure ==
    RunOver => Cardinality(EventsOf("error")) = (IF cs.success THEN 0 ELSE 1)

\* C33: a successful run has called start_new_sequence (its directory
\* exists) and, after its last shot, start_preview_grab, so that it ends with
\* the continuous acquisition of the connected camera started again.
C33_RunRestartsPreviewGrab ==
    (RunOver /\ cs.success /\ cam.connected) =>
        (Len(h.created) = 3 /\ h.created \in dirs /\ cam.grabbing)

\* C34: every attempt of a shot, the first and the retries, begins with
\* set_exposure(e), goes on to set_gain(g) with the shot's own values, then to
\* grab_one with the timeout e + 500, and reaches save_frame only from a
\* grab_one that returned a frame; save_frame writes the file named after e
\* and g with e and g in its metadata.
C34_AttemptCalls ==
    [][ (cs.thread = "running" /\ cs'.pc # cs.pc /\ cs.pc \in ShotPositions \cup {"progress"}) =>
          LET e == cs.conditions[cs.shot][1]
              g == cs.conditions[cs.shot][2]
          IN  /\ cs.pc \in {"progress", "sleep"} => cs'.pc \in {"set_exposure", "except"}
              /\ cs.pc = "set_exposure" =>
                    \/ cs'.pc = "set_gain" /\ cam' = [cam EXCEPT !.exposure = e]
                    \/ cs'.pc = "sleep" /\ cam' = cam
              /\ cs.pc = "set_gain" =>
                    \/ cs'.pc = "grab_one" /\ cam' = [cam EXCEPT !.gain = g]
                    \/ cs'.pc = "sleep" /\ cam' = cam
              /\ cs.pc = "grab_one" =>
                    /\ h'.grabTimeout = e + 500 /\ h'.grabCalls = h.grabCalls + 1
                    /\ \/ cs'.pc = "save_frame" /\ h'.fails = h.fails
                       \/ cs'.pc = "sleep" /\ h'.fails = h.fails + 1
              /\ cs.pc # "grab_one" => h'.grabCalls \in {h.grabCalls, 0}
              /\ cs.pc = "save_frame" =>
                    /\ h'.saveCalls = h.saveCalls + 1
                    /\ files' # files =>
                          files' = WriteFile(files, FramePath(st, e, g), <<h.runs, cs.shot, e, g>>)
              /\ cs.pc # "save_frame" => files' = files ]_vars

\* a second attempt has set exposure and gain again and grabbed a frame
C34_Witness ==
    /\ AtCs("save_frame") /\ cs.attempt = 2 /\ cs.shot = 2
    /\ h.grabTimeout = cs.conditions[2][1] + 500 /\ h.grabCalls = 2

\* C35: a run of n shots calls grab_one at most 3 * n times and sleeps its
\* retry delay at most 3 * n times, whatever attempts fail and whenever it is
\* cancelled, and, its thread running on, it emits its terminal event.
C35_RunTerminates ==
    /\ [](h.runGrabs <= max_retries * total_shots /\ h.runSleeps <= max_retries * total_shots)
    /\ <>RunOver

\* a run of four shots over after two failed attempts in each of them
C35_Witness ==
    /\ RunOver /\ cs.success /\ total_shots = 4
    /\ h.runSleeps = 2 * total_shots /\ h.runGrabs = max_retries * total_shots

\* C36: a successful run leaves as many distinct frame files as it had
\* shots: no save_frame of the run writes the path another shot of the run
\* wrote, duplicate values in the lists included.
C36_DistinctFilePerShot ==
    (RunOver /\ cs.success) =>
        Cardinality({ h.saved[i].path : i \in DOMAIN h.saved }) = total_shots

\* C37: whatever set_root_dir, increment_branch and start_new_sequence calls
\* came before, a start_new_sequence makes a sequence directory that did not
\* exist before the call.
C37_StartMakesNewDirectory ==
    [][ CallOf("start_new_sequence") => get_current_sequence_dir(st') \notin dirs ]_vars

\* C38: at most one run is in progress at any time: an accepted Start leads
\* to at most one started CaptureService, and a Start is accepted and a
\* service is started only when no earlier run is still going on, that is
\* after the terminal event of the run before.
RunsStarted == { i \in DOMAIN h.hs : h.hs[i] = "start" }

C38_OneRunAtATime ==
    /\ [](Cardinality(RunsStarted) <= 1)
    /\ [][ /\ h'.hs = Append(h.hs, "start") => cs.thread # "running"
           /\ h'.runs # h.runs =>
                 /\ cs.thread # "running"
                 /\ cs.thread = "finished" => EventsOf("finished") # {} ]_vars

\* the second run in progress, started after the first one's terminal event
C38_Witness ==
    /\ h.runs = 2 /\ AtCs("grab_one") /\ Cardinality(RunsStarted) = 1

\* C39: a Cancel clicked after a Start was accepted and before the capture
\* thread runs is not lost: the service of that Start begins cancelled, so
\* that its first checkpoint ends the run before any shot.
C39_EarlyCancelKept ==
    [][ (h.earlyCancel /\ h'.hs = Append(h.hs, "start")) => cs'.is_cancelled ]_vars

\* C40: camera.disconnect() runs only when the preview loop has terminated,
\* so never with the preview thread at a camera call, and never while a
\* capture run is in progress.
C40_DisconnectAfterLoopEnd ==
    [][ (cam.connected /\ ~cam'.connected) =>
          (pw.pc = "done" /\ cs.thread # "running") ]_vars

====
